---- MODULE Spec2Model ----
(***************************************************************************)
(* Model of the source agent: the metadata store (source/src/state.rs) and *)
(* the pipeline orchestrator (source/src/server.rs).                       *)
(***************************************************************************)
EXTENDS Integers, Sequences, FiniteSets, TLC

\* ------------------------------------------------------------------ bounds

\* Total number of version rows the File table may hold in the model.
MaxRows == 3
\* Number of candidates the random generator can yield within one command.
MaxRnd == 2

\* Number of runs of the agent against the same database.
MaxPasses == 2
\* Number of events the walker emits in one pass.
MaxEvents == 2
\* Number of chunks the reader emits for one file.
MaxChunks == 2
\* Number of commands accepted into the store's command channel.
MaxCmds == 2

\* ------------------------------------------------------------- value sets

\* Paths "a/b" and "a/c" as raw bytes (the paths of the store's tests).
Paths == { <<97, 47, 98>>, <<97, 47, 99>> }
\* File ids: the test generator yields [n; 6] for a byte n.
Ids == {0, 1, 2}
\* Observed lengths (the tests use 100 and 200).
Lens == {100, 200}

\* ShallowInfo: a path and its length.
ShallowInfo == [file : Paths, len : Lens]

\* Sequences over S of length at most n.
SeqsUpTo(S, n) == UNION { [1..k -> S] : k \in 0..n }

\* What RandomApi::generate_file_id yields on successive calls of one command;
\* when the sequence is exhausted the generator fails. A command is given
\* exactly the candidates it draws (r.drawn = cands in the actions).
RndSeqs == SeqsUpTo(Ids, MaxRnd)

\* Outcome of the database I/O of one command that is not decided by the tables.
IoOutcomes == {"ok", "err"}

VARIABLES
    FileIdT,    \* table FileId(id PRIMARY KEY, path UNIQUE): set of rows
    FileT,      \* table File(id, version, len, PRIMARY KEY(id, version)): set of rows
    last,       \* the most recent store command: input, reply, tables before it
    prev,       \* the store command before it: input and reply
    pc,         \* where serve is: the await it is suspended at
    result,     \* what serve returned
    pass,       \* the number of the current run of the agent
    runner,     \* the store worker: "running" or "exited"
    txOpen,     \* the Store's command Sender is alive (channel open)
    shutdownCalled, \* Store::shutdown was invoked in this run
    walkCh,     \* the walk channel (capacity 1)
    walkFin,    \* walk_op: "running", or its completion "ok" / "err"
    nEvents,    \* events the walker has emitted in this pass
    cur,        \* the ShallowInfo single_file is processing
    verdict,    \* the Change that check_shallow_change returned for cur
    filesAtVerdict, \* the File table when the verdict was returned
    descriptor, \* the Partial placed in the file's descriptor
    chunkCh,    \* the chunk channel (capacity 1)
    readerFin,  \* reader: "none", "running", or its completion "ok" / "err"
    nChunks,    \* chunks the reader has emitted for cur
    handled,    \* chunks hashed and handed to the peer, with the send outcome
    outcome,    \* how single_file ended for cur: "none", "skipped", "sent"
    aborted,    \* the ShallowInfo whose processing aborted, until seen again
    cmdq,       \* the store's command channel (capacity 1): ids of buffered commands
    wcmd,       \* the id of the command the worker has received, 0 when none
    callers,    \* each caller's pending command future: idle, sending or waiting
    accepted,   \* the commands accepted into the channel, in order; the index is the id
    processed,  \* the commands the worker executed, in order, with their replies
    joined,     \* what Store::shutdown returned: "none" until it returns
    atShutdown, \* the ids in the channel or in the worker when shutdown dropped the Sender
    builder,    \* the Builder: which of its fields have been set
    bpc,        \* where Builder::build is
    bresult,    \* what Builder::build returned
    effects,    \* the I/O and constructions Builder::build has performed, in order
    root,       \* the file system entry at the path given to private_directory
    parent,     \* the directory that holds root
    umask,      \* the file mode creation mask of the process
    dres,       \* what the last call of private_directory returned
    before      \* root as it was when that call started

storeVars == <<FileIdT, FileT>>
histVars == <<last, prev>>
walkVars == <<walkCh, walkFin, nEvents>>
readVars == <<chunkCh, readerFin, nChunks, handled>>
fileVars == <<cur, verdict, filesAtVerdict, descriptor, outcome, aborted>>
runVars == <<pc, result, pass, runner, txOpen, shutdownCalled>>
serveVars == <<runVars, walkVars, readVars, fileVars>>
chanVars == <<cmdq, wcmd, callers, accepted, processed, joined, atShutdown>>
buildVars == <<builder, bpc, bresult, effects>>
dirVars == <<root, parent, umask, dres, before>>
envVars == <<buildVars, dirVars>>
auxVars == <<chanVars, envVars>>
vars == <<storeVars, histVars, serveVars, auxVars>>

\* ------------------------------------------------------------------ store

\* Partial { file_id, version, len }
Partial(id, version, len) == [file_id |-> id, version |-> version, len |-> len]

\* Change::Unchanged(Partial)
Unchanged(p) == [kind |-> "Unchanged", partial |-> <<p>>]
\* Change::Changed(Option<Partial>): opt is <<>> for None, <<p>> for Some(p)
Changed(opt) == [kind |-> "Changed", partial |-> opt]
\* Ok(Partial) of insert
Inserted(p) == [kind |-> "Ok", partial |-> <<p>>]
\* Err(_) of either command
Failed == [kind |-> "Err", partial |-> <<>>]

\* The unix canonical_path_repr: the bytes of the path, copied.
canonical_path_repr(path) == [i \in 1..Len(path) |-> path[i]]

\* FileId without its primary key: only the unique index on path is enforced.
FileIdConstraintViolation_NoPrimaryKey(tab, id, canonical) ==
    \E r \in tab : r.path = canonical

\* INSERT INTO FileId(id, path): the primary key on id and the unique index
\* on path both raise ConstraintViolation.
FileIdConstraintViolation(tab, id, canonical) ==
    \E r \in tab : r.id = id \/ r.path = canonical

\* A loop that retries once and lets the second candidate replace the row
\* that holds it (INSERT OR REPLACE on the retry).
file_id_insert_loop_Replace(cands, canonical, tab, drawn) ==
    IF cands = <<>>
    THEN [ok |-> FALSE, id |-> 0, tab |-> tab, drawn |-> drawn]
    ELSE IF ~(\E r \in tab : r.id = Head(cands) \/ r.path = canonical)
    THEN [ok |-> TRUE, id |-> Head(cands),
          tab |-> tab \cup {[id |-> Head(cands), path |-> canonical]},
          drawn |-> Append(drawn, Head(cands))]
    ELSE IF Len(cands) < 2
    THEN [ok |-> FALSE, id |-> 0, tab |-> tab, drawn |-> Append(drawn, Head(cands))]
    ELSE [ok |-> TRUE, id |-> cands[2],
          tab |-> { r \in tab : r.id # cands[2] } \cup {[id |-> cands[2], path |-> canonical]},
          drawn |-> drawn \o <<cands[1], cands[2]>>]

\* The retry loop of get_file_id: draw candidates until one inserts.
RECURSIVE file_id_insert_loop(_, _, _, _)
file_id_insert_loop(cands, canonical, tab, drawn) ==
    IF cands = <<>>
    THEN [ok |-> FALSE, id |-> 0, tab |-> tab, drawn |-> drawn]
    ELSE LET id == Head(cands)
         IN  IF FileIdConstraintViolation(tab, id, canonical)
             THEN file_id_insert_loop(Tail(cands), canonical, tab, Append(drawn, id))
             ELSE [ok |-> TRUE, id |-> id,
                   tab |-> tab \cup {[id |-> id, path |-> canonical]},
                   drawn |-> Append(drawn, id)]

get_file_id(cands, path, tab) ==
    LET canonical == canonical_path_repr(path)
        ids == { r.id : r \in { s \in tab : s.path = canonical } }
    IN  IF ids # {}
        THEN [ok |-> TRUE, id |-> CHOOSE i \in ids : TRUE, tab |-> tab, drawn |-> <<>>]
        ELSE file_id_insert_loop(cands, canonical, tab, <<>>)

\* The query with ORDER BY version ASC: the oldest row instead of the latest.
lookup_file_Oldest(file_id, files) ==
    LET rows == { r \in files : r.id = file_id }
    IN  IF rows = {} THEN <<>>
        ELSE LET top == CHOOSE r \in rows : \A s \in rows : s.version >= r.version
             IN  << [file_id |-> file_id, version |-> top.version, len |-> top.len] >>

\* SELECT version, len FROM File WHERE id = ?1 ORDER BY version DESC LIMIT 1
lookup_file(file_id, files) ==
    LET rows == { r \in files : r.id = file_id }
    IN  IF rows = {} THEN <<>>
        ELSE LET top == CHOOSE r \in rows : \A s \in rows : s.version <= r.version
             IN  << Partial(file_id, top.version, top.len) >>

\* A check that records the observed length when it differs.
shallow_check_Records(cands, io, info, ids, files) ==
    LET g == get_file_id(cands, info.file, ids)
        partial == lookup_file(g.id, files)
    IN  IF io = "err"
        THEN [reply |-> Failed, ids |-> ids, files |-> files, drawn |-> <<>>]
        ELSE IF ~g.ok
        THEN [reply |-> Failed, ids |-> ids, files |-> files, drawn |-> g.drawn]
        ELSE IF partial = <<>>
        THEN [reply |-> Changed(<<>>), ids |-> g.tab, files |-> files, drawn |-> g.drawn]
        ELSE IF partial[1].len # info.len
        THEN [reply |-> Changed(partial), ids |-> g.tab,
              files |-> files \cup {[id |-> g.id, version |-> partial[1].version + 1,
                                     len |-> info.len]},
              drawn |-> g.drawn]
        ELSE [reply |-> Unchanged(partial[1]), ids |-> g.tab, files |-> files,
              drawn |-> g.drawn]

\* StoreRunner::shallow_check. A failure before the commit rolls back.
shallow_check(cands, io, info, ids, files) ==
    LET g == get_file_id(cands, info.file, ids)
        partial == lookup_file(g.id, files)
    IN  IF io = "err"
        THEN [reply |-> Failed, ids |-> ids, files |-> files, drawn |-> <<>>]
        ELSE IF ~g.ok
        THEN [reply |-> Failed, ids |-> ids, files |-> files, drawn |-> g.drawn]
        ELSE [reply |-> IF partial = <<>> THEN Changed(<<>>)
                        ELSE IF partial[1].len # info.len THEN Changed(partial)
                        ELSE Unchanged(partial[1]),
              ids |-> g.tab, files |-> files, drawn |-> g.drawn]

\* A version counter that skips a number.
next_version_Skip(partial) == IF partial = <<>> THEN 0 ELSE partial[1].version + 2

\* The version insert assigns to the new row.
next_version(partial) == IF partial = <<>> THEN 0 ELSE partial[1].version + 1

\* An insert that returns the Partial it looked up instead of the new one.
insert_ReturnsLookedUp(cands, io, info, ids, files) ==
    LET g == get_file_id(cands, info.file, ids)
        looked == lookup_file(g.id, files)
        version == next_version(looked)
    IN  IF io = "err"
        THEN [reply |-> Failed, ids |-> ids, files |-> files, drawn |-> <<>>]
        ELSE IF ~g.ok
        THEN [reply |-> Failed, ids |-> ids, files |-> files, drawn |-> g.drawn]
        ELSE [reply |-> Inserted(IF looked = <<>> THEN Partial(g.id, 0, info.len)
                                 ELSE looked[1]),
              ids |-> g.tab,
              files |-> files \cup {[id |-> g.id, version |-> version, len |-> info.len]},
              drawn |-> g.drawn]

\* StoreRunner::insert. A failure before the commit rolls back.
insert(cands, io, info, ids, files) ==
    LET g == get_file_id(cands, info.file, ids)
        version == next_version(lookup_file(g.id, files))
        pkViolation == \E r \in files : r.id = g.id /\ r.version = version
    IN  IF io = "err"
        THEN [reply |-> Failed, ids |-> ids, files |-> files, drawn |-> <<>>]
        ELSE IF ~g.ok \/ pkViolation
        THEN [reply |-> Failed, ids |-> ids, files |-> files, drawn |-> g.drawn]
        ELSE [reply |-> Inserted(Partial(g.id, version, info.len)),
              ids |-> g.tab,
              files |-> files \cup {[id |-> g.id, version |-> version, len |-> info.len]},
              drawn |-> g.drawn]

\* ------------------------------------------------- store-level specification

NoInfo == [file |-> <<>>, len |-> 0]

NoCommand == [op |-> "none", file |-> <<>>, reply |-> Failed]

Summary(c) == [op |-> c.op, file |-> c.info.file, reply |-> c.reply]

\* History of the commands: last always; prev (the command before, when it was
\* for the same path) only in the specification that tracks pairs of commands.
Record(op, info, r, pairs) ==
    /\ last' = [op |-> op, info |-> info, reply |-> r.reply, drawn |-> r.drawn,
                preIds |-> FileIdT, preFiles |-> FileT]
    /\ prev' = IF pairs /\ last.info.file = info.file THEN Summary(last) ELSE NoCommand

\* A new database, before any command.
InitStore ==
    /\ FileIdT = {}
    /\ FileT = {}
    /\ last = [op |-> "none", info |-> NoInfo, reply |-> Failed, drawn |-> <<>>,
               preIds |-> {}, preFiles |-> {}]
    /\ prev = NoCommand

\* A Server that Builder::build has just assembled: the Store's worker is
\* spawned and its command channel is open; nothing else has happened.
InitServerWith(at, r) ==
    /\ pc = at
    /\ result = "none"
    /\ pass = 1
    /\ runner = r
    /\ txOpen = TRUE
    /\ shutdownCalled = FALSE
    /\ walkCh = <<>>
    /\ walkFin = "none"
    /\ nEvents = 0
    /\ cur = NoInfo
    /\ verdict = Failed
    /\ filesAtVerdict = {}
    /\ descriptor = <<>>
    /\ chunkCh = <<>>
    /\ readerFin = "none"
    /\ nChunks = 0
    /\ handled = <<>>
    /\ outcome = "none"
    /\ aborted = NoInfo

\* A Server whose store worker has created the schema and waits for commands.
InitServer(at) == InitServerWith(at, "running")

\* mpsc::channel::<StateOp>(1)
ChannelCapacity == 1

\* The tasks that call the Store's methods.
Callers == {"c1", "c2"}

\* enum StateOp
StateOps == {"ShallowCheck", "Insert"}

NoOp == [op |-> "none", info |-> NoInfo]

\* A caller with no command future.
Idle == [st |-> "idle", cmd |-> NoOp, id |-> 0]

\* The command channel as Store::initialize creates it.
InitChannel ==
    /\ cmdq = <<>>
    /\ wcmd = 0
    /\ callers = [c \in Callers |-> Idle]
    /\ accepted = <<>>
    /\ processed = <<>>
    /\ joined = "none"
    /\ atShutdown = {}

\* Builder::default()
DefaultBuilder ==
    [roots |-> FALSE, connection |-> FALSE, broker |-> FALSE, db |-> "", crypto |-> FALSE]

\* A Builder on which no method has been called.
InitBuilder ==
    /\ builder = DefaultBuilder
    /\ bpc = "config"
    /\ bresult = "none"
    /\ effects = <<>>

\* Nothing at the path.
Missing == [kind |-> "missing", mode |-> 0]

\* A path that private_directory has not been called on.
InitDirectory ==
    /\ root = Missing
    /\ parent = "dir"
    /\ umask = 18
    /\ dres = "none"
    /\ before = Missing

InitEnv == InitBuilder /\ InitDirectory

\* The store alone: serve is never called.
Init == InitStore /\ InitServer("idle") /\ InitChannel /\ InitEnv

\* Store::check_shallow_change, executed by the worker.
CheckShallowChange(pairs) ==
    \E info \in ShallowInfo, cands \in RndSeqs, io \in IoOutcomes :
        \E r \in {shallow_check(cands, io, info, FileIdT, FileT)} :
            /\ r.drawn = cands
            /\ FileIdT' = r.ids
            /\ FileT' = r.files
            /\ Record("check", info, r, pairs)
            /\ UNCHANGED <<serveVars, auxVars>>

\* Store::insert, executed by the worker.
Insert(pairs) ==
    \E info \in ShallowInfo, cands \in RndSeqs, io \in IoOutcomes :
        /\ Cardinality(FileT) < MaxRows
        /\ \E r \in {insert(cands, io, info, FileIdT, FileT)} :
               /\ r.drawn = cands
               /\ FileIdT' = r.ids
               /\ FileT' = r.files
               /\ Record("insert", info, r, pairs)
               /\ UNCHANGED <<serveVars, auxVars>>

Next == CheckShallowChange(FALSE) \/ Insert(FALSE)

\* Any sequence of store commands.
Spec == Init /\ [][Next]_vars

NextPairs == CheckShallowChange(TRUE) \/ Insert(TRUE)

\* The same commands, with the previous command of the same path remembered.
SpecPairs == Init /\ [][NextPairs]_vars

\* ------------------------------------------------------------ orchestrator

\* WalkEvent::File(info) and WalkEvent::Error(path, err); the path and cause
\* of an Error are only logged, so one Error event stands for all.
WalkEvents ==
    { [kind |-> "File", info |-> i] : i \in ShallowInfo } \cup
    { [kind |-> "Error", info |-> NoInfo] }

\* Outcomes of a collaborator's fallible operation.
Completions == {"ok", "err"}

\* The state of a Server that has not run yet.
FreshServer(at, n) ==
    /\ pc' = at
    /\ result' = "none"
    /\ pass' = n
    /\ runner' = "running"
    /\ txOpen' = TRUE
    /\ shutdownCalled' = FALSE
    /\ walkCh' = <<>>
    /\ walkFin' = "none"
    /\ nEvents' = 0
    /\ cur' = NoInfo
    /\ verdict' = Failed
    /\ filesAtVerdict' = {}
    /\ descriptor' = <<>>
    /\ chunkCh' = <<>>
    /\ readerFin' = "none"
    /\ nChunks' = 0
    /\ handled' = <<>>
    /\ outcome' = "none"

\* The agent starts with a new database.
InitServe == InitStore /\ InitServer("start") /\ InitChannel /\ InitEnv

\* serve returns Err through `?`: self, and with it the Store's Sender and
\* JoinHandle, is dropped; shutdown is not called and the worker is not awaited.
Abort(err) ==
    /\ pc' = "returned"
    /\ result' = err
    /\ txOpen' = FALSE
    /\ UNCHANGED <<pass, runner, shutdownCalled>>

\* serve -> single_pass: the walk channel is created and the walk started.
StartPass ==
    /\ pc = "start"
    /\ pc' = "select_walk"
    /\ walkFin' = "running"
    /\ UNCHANGED <<storeVars, histVars, result, pass, runner, txOpen, shutdownCalled,
                   walkCh, nEvents, readVars, fileVars>>
    /\ UNCHANGED auxVars

\* The walker sends an event into the free slot of the walk channel.
WalkerEmit ==
    /\ pc = "select_walk"
    /\ walkFin = "running"
    /\ walkCh = <<>>
    /\ nEvents < MaxEvents
    /\ \E e \in WalkEvents : walkCh' = <<e>>
    /\ nEvents' = nEvents + 1
    /\ UNCHANGED <<storeVars, histVars, runVars, walkFin, readVars, fileVars>>
    /\ UNCHANGED auxVars

\* The walk completes, successfully or not.
WalkerFinish ==
    /\ pc = "select_walk"
    /\ walkFin = "running"
    /\ \E c \in Completions : walkFin' = c
    /\ UNCHANGED <<storeVars, histVars, runVars, walkCh, nEvents, readVars, fileVars>>
    /\ UNCHANGED auxVars

\* single_pass, select branch rx.recv(): a File event enters single_file, an
\* Error event is logged.
RecvWalkEvent ==
    /\ pc = "select_walk"
    /\ walkCh # <<>>
    /\ walkCh' = <<>>
    /\ IF walkCh[1].kind = "File"
       THEN pc' = "check" /\ cur' = walkCh[1].info
       ELSE UNCHANGED <<pc, cur>>
    /\ UNCHANGED <<storeVars, histVars, result, pass, runner, txOpen, shutdownCalled,
                   walkFin, nEvents, readVars, verdict, filesAtVerdict, descriptor,
                   outcome, aborted>>
    /\ UNCHANGED auxVars

\* single_file returns Ok(()) to the loop of single_pass: its locals (the
\* verdict, the descriptor, the reader and the chunk channel) are dropped.
SingleFileReturns ==
    /\ pc = "file_done"
    /\ pc' = "select_walk"
    /\ cur' = NoInfo
    /\ verdict' = Failed
    /\ filesAtVerdict' = {}
    /\ descriptor' = <<>>
    /\ outcome' = "none"
    /\ aborted' = IF aborted.file = cur.file THEN NoInfo ELSE aborted
    /\ chunkCh' = <<>>
    /\ readerFin' = "none"
    /\ nChunks' = 0
    /\ handled' = <<>>
    /\ UNCHANGED <<storeVars, histVars, result, pass, runner, txOpen, shutdownCalled,
                   walkVars>>
    /\ UNCHANGED auxVars

\* WalkDone for a shutdown that awaits the worker without dropping the Sender.
WalkDone_KeepsSender ==
    /\ pc = "select_walk"
    /\ walkFin \in Completions
    /\ pc' = "await_handle"
    /\ shutdownCalled' = TRUE
    /\ UNCHANGED <<storeVars, histVars, result, pass, runner, txOpen, walkVars, readVars,
                   fileVars>>
    /\ UNCHANGED auxVars

\* single_pass, select branch walk_op: done is set, the loop ends, single_pass
\* returns Ok and serve calls Store::shutdown, which drops the Sender and
\* awaits the worker.
WalkDone ==
    /\ pc = "select_walk"
    /\ walkFin \in Completions
    /\ pc' = "await_handle"
    /\ txOpen' = FALSE
    /\ shutdownCalled' = TRUE
    /\ UNCHANGED <<storeVars, histVars, result, pass, runner, walkVars, readVars, fileVars>>
    /\ UNCHANGED auxVars

\* SingleFileCheck for a single_file that goes on to insert whatever the
\* verdict is.
SingleFileCheck_AlwaysChanged ==
    /\ pc = "check"
    /\ \E cands \in RndSeqs, io \in IoOutcomes :
         \E r \in {shallow_check(cands, io, cur, FileIdT, FileT)} :
            /\ r.drawn = cands
            /\ FileIdT' = r.ids
            /\ FileT' = r.files
            /\ verdict' = r.reply
            /\ filesAtVerdict' = r.files
            /\ IF r.reply.kind = "Err"
               THEN Abort("StoreErr") /\ UNCHANGED outcome
               ELSE /\ pc' = "insert"
                    /\ UNCHANGED <<outcome, result, pass, runner, txOpen, shutdownCalled>>
    /\ UNCHANGED <<histVars, walkVars, readVars, cur, descriptor, aborted>>
    /\ UNCHANGED auxVars

\* single_file: store.check_shallow_change(info).await?
SingleFileCheck ==
    /\ pc = "check"
    /\ \E cands \in RndSeqs, io \in IoOutcomes :
         \E r \in {shallow_check(cands, io, cur, FileIdT, FileT)} :
            /\ r.drawn = cands
            /\ FileIdT' = r.ids
            /\ FileT' = r.files
            /\ verdict' = r.reply
            /\ filesAtVerdict' = r.files
            /\ IF r.reply.kind = "Err"
               THEN Abort("StoreErr") /\ UNCHANGED outcome
               ELSE IF r.reply.kind = "Unchanged"
               THEN /\ pc' = "file_done"
                    /\ outcome' = "skipped"
                    /\ UNCHANGED <<result, pass, runner, txOpen, shutdownCalled>>
               ELSE /\ pc' = "insert"
                    /\ UNCHANGED <<outcome, result, pass, runner, txOpen, shutdownCalled>>
    /\ UNCHANGED <<histVars, walkVars, readVars, cur, descriptor, aborted>>
    /\ UNCHANGED auxVars

\* single_file: let version = store.insert(info).await?
SingleFileInsert ==
    /\ pc = "insert"
    /\ \E cands \in RndSeqs, io \in IoOutcomes :
         \E r \in {insert(cands, io, cur, FileIdT, FileT)} :
            /\ r.drawn = cands
            /\ FileIdT' = r.ids
            /\ FileT' = r.files
            /\ IF r.reply.kind = "Err"
               THEN Abort("StoreErr") /\ UNCHANGED descriptor
               ELSE /\ pc' = "encrypt"
                    /\ descriptor' = r.reply.partial
                    /\ UNCHANGED <<result, pass, runner, txOpen, shutdownCalled>>
    /\ UNCHANGED <<histVars, walkVars, readVars, cur, verdict, filesAtVerdict, outcome,
                   aborted>>
    /\ UNCHANGED auxVars

\* single_file: encrypt_descriptor(..)?, then the chunk channel is created and
\* the reader started.
EncryptDescriptor ==
    /\ pc = "encrypt"
    /\ \E c \in Completions :
         IF c = "err"
         THEN /\ Abort("EncryptErr")
              /\ aborted' = cur
              /\ UNCHANGED readVars
         ELSE /\ pc' = "select_chunk"
              /\ chunkCh' = <<>>
              /\ readerFin' = "running"
              /\ nChunks' = 0
              /\ handled' = <<>>
              /\ UNCHANGED <<result, pass, runner, txOpen, shutdownCalled, aborted>>
    /\ UNCHANGED <<storeVars, histVars, walkVars, cur, verdict, filesAtVerdict,
                   descriptor, outcome>>
    /\ UNCHANGED auxVars

\* The reader sends the next chunk into the free slot of the chunk channel.
ReaderEmit ==
    /\ pc = "select_chunk"
    /\ readerFin = "running"
    /\ chunkCh = <<>>
    /\ nChunks < MaxChunks
    /\ nChunks' = nChunks + 1
    /\ chunkCh' = <<nChunks + 1>>
    /\ UNCHANGED <<storeVars, histVars, runVars, walkVars, readerFin, handled, fileVars>>
    /\ UNCHANGED auxVars

\* The reader completes with the size read or with a read error.
ReaderFinish ==
    /\ pc = "select_chunk"
    /\ readerFin = "running"
    /\ \E c \in Completions : readerFin' = c
    /\ UNCHANGED <<storeVars, histVars, runVars, walkVars, chunkCh, nChunks, handled,
                   fileVars>>
    /\ UNCHANGED auxVars

\* single_file, select branch chunk_out.recv(): the chunk goes to the
\* fingerprinter.
RecvChunk ==
    /\ pc = "select_chunk"
    /\ chunkCh # <<>>
    /\ pc' = "hash_send"
    /\ UNCHANGED <<storeVars, histVars, result, pass, runner, txOpen, shutdownCalled,
                   walkVars, readVars, fileVars>>
    /\ UNCHANGED auxVars

\* fp.hash(data).await, then peer.send(&chunk).await; a send failure is logged.
HashAndSend ==
    /\ pc = "hash_send"
    /\ \E c \in Completions :
         handled' = Append(handled, [chunk |-> chunkCh[1], sent |-> c])
    /\ chunkCh' = <<>>
    /\ pc' = "select_chunk"
    /\ UNCHANGED <<storeVars, histVars, result, pass, runner, txOpen, shutdownCalled,
                   walkVars, readerFin, nChunks, fileVars>>
    /\ UNCHANGED auxVars

\* ReaderFailed for a single_file that logs the read error and returns Ok(()).
ReaderFailed_Logged ==
    /\ pc = "select_chunk"
    /\ readerFin = "err"
    /\ pc' = "file_done"
    /\ UNCHANGED <<storeVars, histVars, result, pass, runner, txOpen, shutdownCalled,
                   walkVars, readVars, fileVars>>
    /\ UNCHANGED auxVars

\* single_file, select branch reader, Err(err): return Err(err).
ReaderFailed ==
    /\ pc = "select_chunk"
    /\ readerFin = "err"
    /\ Abort("ReadErr")
    /\ aborted' = cur
    /\ UNCHANGED <<storeVars, histVars, walkVars, readVars, cur, verdict, filesAtVerdict,
                   descriptor, outcome>>
    /\ UNCHANGED auxVars

\* single_file, select branch reader, Ok(size): store.insert(info).await? and
\* return Ok(()).
ReaderDone ==
    /\ pc = "select_chunk"
    /\ readerFin = "ok"
    /\ \E cands \in RndSeqs, io \in IoOutcomes :
         \E r \in {insert(cands, io, cur, FileIdT, FileT)} :
            /\ r.drawn = cands
            /\ FileIdT' = r.ids
            /\ FileT' = r.files
            /\ IF r.reply.kind = "Err"
               THEN Abort("StoreErr") /\ UNCHANGED outcome
               ELSE /\ pc' = "file_done"
                    /\ outcome' = "sent"
                    /\ UNCHANGED <<result, pass, runner, txOpen, shutdownCalled>>
    /\ UNCHANGED <<histVars, walkVars, readVars, cur, verdict, filesAtVerdict, descriptor,
                   aborted>>
    /\ UNCHANGED auxVars

\* StoreRunner::run: blocking_recv returns None once every Sender is dropped
\* and the channel is empty; the loop breaks and the worker ends.
RunnerExit ==
    /\ runner = "running"
    /\ ~txOpen
    /\ cmdq = <<>>
    /\ runner' = "exited"
    /\ UNCHANGED <<storeVars, histVars, pc, result, pass, txOpen, shutdownCalled,
                   walkVars, readVars, fileVars>>
    /\ UNCHANGED auxVars

\* Store::shutdown: self.handle.await? completes when the worker has ended;
\* serve returns Ok(()).
ShutdownJoined ==
    /\ pc = "await_handle"
    /\ runner = "exited"
    /\ pc' = "returned"
    /\ result' = "Ok"
    /\ UNCHANGED <<storeVars, histVars, pass, runner, txOpen, shutdownCalled,
                   walkVars, readVars, fileVars>>
    /\ UNCHANGED auxVars

\* A later run of the agent: Builder::build opens the same database again.
NextRun ==
    /\ pc = "returned"
    /\ pass < MaxPasses
    /\ FreshServer("start", pass + 1)
    /\ aborted' = IF aborted.file = cur.file /\ result \notin {"EncryptErr", "ReadErr"}
                  THEN NoInfo ELSE aborted
    /\ UNCHANGED <<storeVars, histVars>>
    /\ UNCHANGED auxVars

NextServe ==
    \/ StartPass
    \/ WalkerEmit
    \/ WalkerFinish
    \/ RecvWalkEvent
    \/ SingleFileReturns
    \/ WalkDone
    \/ SingleFileCheck
    \/ SingleFileInsert
    \/ EncryptDescriptor
    \/ ReaderEmit
    \/ ReaderFinish
    \/ RecvChunk
    \/ HashAndSend
    \/ ReaderFailed
    \/ ReaderDone
    \/ RunnerExit
    \/ ShutdownJoined

\* One run of the agent: serve, from a new database.
SpecServe == InitServe /\ [][NextServe]_vars

\* The steps of the task that runs serve.
ServeStep ==
    \/ StartPass
    \/ RecvWalkEvent
    \/ SingleFileReturns
    \/ WalkDone
    \/ SingleFileCheck
    \/ SingleFileInsert
    \/ EncryptDescriptor
    \/ RecvChunk
    \/ HashAndSend
    \/ ReaderFailed
    \/ ReaderDone
    \/ ShutdownJoined

\* The runtime schedules every task that can run: the task of serve, whose
\* store, fingerprinter and transport requests are answered, the walker and
\* the reader, which complete, and the thread of the store worker.
FairServe ==
    /\ WF_vars(ServeStep)
    /\ WF_vars(WalkerEmit \/ WalkerFinish)
    /\ WF_vars(ReaderEmit \/ ReaderFinish)
    /\ WF_vars(RunnerExit)

\* One run of the agent under fair scheduling.
SpecServeFair == InitServe /\ [][NextServe]_vars /\ FairServe

NextRuns == NextServe \/ NextRun

\* Runs of the agent, one after the other, against one database.
SpecRuns == InitServe /\ [][NextRuns]_vars

\* ---------------------------------------------------- store command channel

\* The worker has ended: run returned Ok, run returned Err, or the thread
\* panicked. In each case the Receiver is dropped.
Ended == {"exited", "failed", "panicked"}

\* The ids of the commands in the channel or held by the worker.
InFlight == {cmdq[i] : i \in 1..Len(cmdq)} \cup (IF wcmd = 0 THEN {} ELSE {wcmd})

\* Store::initialize has returned the Store; the worker thread is spawned and
\* has not yet created the schema.
InitChan == InitStore /\ InitServerWith("idle", "init") /\ InitChannel /\ InitEnv

\* StoreRunner::run, the three CREATE statements: on an error run returns Err
\* through `?`, the Receiver is dropped with the commands buffered in it, and
\* the closure of spawn_blocking logs the error and returns Ok(()).
RunnerInit ==
    /\ runner = "init"
    /\ \E io \in IoOutcomes :
         IF io = "ok"
         THEN runner' = "running" /\ cmdq' = cmdq
         ELSE runner' = "failed" /\ cmdq' = <<>>
    /\ UNCHANGED <<storeVars, histVars, pc, result, pass, txOpen, shutdownCalled,
                   walkVars, readVars, fileVars, wcmd, callers, accepted, processed,
                   joined, atShutdown, envVars>>

\* Store::check_shallow_change / Store::insert is called: the reply channel is
\* created and self.tx.send(..) awaits room in the command channel. The
\* methods borrow the Store, so none starts once shutdown has consumed it.
Submit(c) ==
    /\ txOpen
    /\ callers[c].st = "idle"
    /\ Len(accepted) + Cardinality({d \in Callers : callers[d].st = "sending"}) < MaxCmds
    /\ \E op \in StateOps, info \in ShallowInfo :
         callers' = [callers EXCEPT ![c] = [st |-> "sending",
                                            cmd |-> [op |-> op, info |-> info],
                                            id |-> 0]]
    /\ UNCHANGED <<storeVars, histVars, serveVars, cmdq, wcmd, accepted, processed,
                   joined, atShutdown, envVars>>

\* SendAccepted for a channel that never makes a sender wait for room.
SendAccepted_Unbounded(c) ==
    /\ callers[c].st = "sending"
    /\ runner \notin Ended
    /\ accepted' = Append(accepted, callers[c].cmd)
    /\ cmdq' = Append(cmdq, Len(accepted) + 1)
    /\ callers' = [callers EXCEPT ![c] = [st |-> "waiting", cmd |-> @.cmd,
                                          id |-> Len(accepted) + 1]]
    /\ UNCHANGED <<storeVars, histVars, serveVars, wcmd, processed, joined,
                   atShutdown, envVars>>

\* self.tx.send(..) completes: the command is in the buffer of the channel and
\* the caller awaits the reply.
SendAccepted(c) ==
    /\ callers[c].st = "sending"
    /\ runner \notin Ended
    /\ Len(cmdq) < ChannelCapacity
    /\ accepted' = Append(accepted, callers[c].cmd)
    /\ cmdq' = Append(cmdq, Len(accepted) + 1)
    /\ callers' = [callers EXCEPT ![c] = [st |-> "waiting", cmd |-> @.cmd,
                                          id |-> Len(accepted) + 1]]
    /\ UNCHANGED <<storeVars, histVars, serveVars, wcmd, processed, joined,
                   atShutdown, envVars>>

\* self.tx.send(..) fails, the Receiver being dropped: "failed to send command".
SendFails(c) ==
    /\ callers[c].st = "sending"
    /\ runner \in Ended
    /\ callers' = [callers EXCEPT ![c] = Idle]
    /\ UNCHANGED <<storeVars, histVars, serveVars, cmdq, wcmd, accepted, processed,
                   joined, atShutdown, envVars>>

\* rx.await fails, the command having been dropped with the Receiver:
\* "failed to get result".
ReplyLost(c) ==
    /\ callers[c].st = "waiting"
    /\ runner \in Ended
    /\ callers' = [callers EXCEPT ![c] = Idle]
    /\ UNCHANGED <<storeVars, histVars, serveVars, cmdq, wcmd, accepted, processed,
                   joined, atShutdown, envVars>>

\* The caller's future is dropped at one of its two awaits (a timeout, a
\* select, an aborted task). A command already sent stays in the channel; its
\* reply Receiver is gone.
Cancel(c) ==
    /\ callers[c].st \in {"sending", "waiting"}
    /\ callers' = [callers EXCEPT ![c] = Idle]
    /\ UNCHANGED <<storeVars, histVars, serveVars, cmdq, wcmd, accepted, processed,
                   joined, atShutdown, envVars>>

\* RunnerRecv for a worker that receives the next command while it still
\* executes one.
RunnerRecv_WhileBusy ==
    /\ runner \in {"running", "busy"}
    /\ cmdq # <<>>
    /\ wcmd' = Head(cmdq)
    /\ cmdq' = Tail(cmdq)
    /\ runner' = "busy"
    /\ UNCHANGED <<storeVars, histVars, pc, result, pass, txOpen, shutdownCalled,
                   walkVars, readVars, fileVars, callers, accepted, processed,
                   joined, atShutdown, envVars>>

\* StoreRunner::run: rx.blocking_recv() returns Some(command).
RunnerRecv ==
    /\ runner = "running"
    /\ cmdq # <<>>
    /\ wcmd' = Head(cmdq)
    /\ cmdq' = Tail(cmdq)
    /\ runner' = "busy"
    /\ UNCHANGED <<storeVars, histVars, pc, result, pass, txOpen, shutdownCalled,
                   walkVars, readVars, fileVars, callers, accepted, processed,
                   joined, atShutdown, envVars>>

\* StoreRunner::run: the command runs in its transaction and
\* tx.send(result).unwrap() hands the reply to the caller; when the caller's
\* Receiver is dropped send returns Err and unwrap panics.
RunnerExec ==
    /\ runner = "busy"
    /\ \E cands \in RndSeqs, io \in IoOutcomes :
         LET cmd == accepted[wcmd]
             waiters == {c \in Callers : callers[c].st = "waiting" /\ callers[c].id = wcmd}
         IN \E r \in {IF cmd.op = "Insert"
                      THEN insert(cands, io, cmd.info, FileIdT, FileT)
                      ELSE shallow_check(cands, io, cmd.info, FileIdT, FileT)} :
              /\ r.drawn = cands
              /\ FileIdT' = r.ids
              /\ FileT' = r.files
              /\ processed' = Append(processed, [id |-> wcmd, cands |-> cands, io |-> io,
                                                 reply |-> r.reply,
                                                 delivered |-> waiters # {}])
              /\ IF waiters # {}
                 THEN /\ runner' = "running"
                      /\ callers' = [c \in Callers |->
                                        IF c \in waiters THEN Idle ELSE callers[c]]
                      /\ cmdq' = cmdq
                 ELSE /\ runner' = "panicked"
                      /\ cmdq' = <<>>
                      /\ callers' = callers
    /\ wcmd' = 0
    /\ UNCHANGED <<histVars, pc, result, pass, txOpen, shutdownCalled, walkVars,
                   readVars, fileVars, accepted, joined, atShutdown, envVars>>

\* Store::shutdown(self), drop(self.tx): shutdown takes the Store by value,
\* so every command future, which borrows it, has completed or been dropped.
StoreShutdown ==
    /\ txOpen
    /\ \A c \in Callers : callers[c].st = "idle"
    /\ txOpen' = FALSE
    /\ shutdownCalled' = TRUE
    /\ atShutdown' = InFlight
    /\ UNCHANGED <<storeVars, histVars, pc, result, pass, runner, walkVars, readVars,
                   fileVars, cmdq, wcmd, callers, accepted, processed, joined, envVars>>

\* Store::shutdown, self.handle.await?: the JoinHandle yields what the closure
\* returned, Ok(()), or the JoinError of a panicked worker.
ShutdownReturns ==
    /\ shutdownCalled
    /\ joined = "none"
    /\ runner \in Ended
    /\ joined' = IF runner = "panicked" THEN "Err" ELSE "Ok"
    /\ UNCHANGED <<storeVars, histVars, serveVars, cmdq, wcmd, callers, accepted,
                   processed, atShutdown, envVars>>

NextChan ==
    \/ RunnerInit
    \/ \E c \in Callers : Submit(c)
    \/ \E c \in Callers : SendAccepted(c)
    \/ \E c \in Callers : SendFails(c)
    \/ \E c \in Callers : ReplyLost(c)
    \/ \E c \in Callers : Cancel(c)
    \/ RunnerRecv
    \/ RunnerExec
    \/ RunnerExit
    \/ StoreShutdown
    \/ ShutdownReturns

\* A Store used by concurrent callers and then shut down.
SpecChan == InitChan /\ [][NextChan]_vars

\* ------------------------------------------------------------------ builder

\* Paths given to Builder::db.
DbPaths == {"state.db", "other.db"}

\* The Builder's methods take it by value and return it changed.
Configure(b) ==
    /\ bpc = "config"
    /\ builder' = b
    /\ UNCHANGED <<storeVars, histVars, serveVars, chanVars, dirVars, bpc, bresult,
                   effects>>

\* Builder::roots
SetRoots == Configure([builder EXCEPT !.roots = TRUE])

\* Builder::connection
SetConnection == Configure([builder EXCEPT !.connection = TRUE])

\* Builder::broker
SetBroker == Configure([builder EXCEPT !.broker = TRUE])

\* Builder::db
SetDb == \E path \in DbPaths : Configure([builder EXCEPT !.db = path])

\* Builder::crypto: the random generator and the source key are set together.
SetCrypto == Configure([builder EXCEPT !.crypto = TRUE])

\* Builder::settings: roots, connection, broker and db from one Settings.
ApplySettings ==
    \E path \in DbPaths :
        Configure([builder EXCEPT !.roots = TRUE, !.connection = TRUE,
                                  !.broker = TRUE, !.db = path])

\* build returns: the Builder is consumed.
BuildReturns(r) ==
    /\ bpc' = "returned"
    /\ bresult' = r

\* Builder::build up to its first await: the connection and the broker
\* settings are required, then broker_client::new is called.
BuildStart ==
    /\ bpc = "config"
    /\ IF ~builder.connection
       THEN BuildReturns("MissingConnection") /\ UNCHANGED effects
       ELSE IF ~builder.broker
       THEN BuildReturns("MissingBrokerInfo") /\ UNCHANGED effects
       ELSE /\ bpc' = "connect"
            /\ effects' = Append(effects, "broker_connect")
            /\ UNCHANGED bresult
    /\ UNCHANGED <<storeVars, histVars, serveVars, chanVars, dirVars, builder>>

\* broker_client::new(..).await? returns; peer::new; the key material is
\* required; AsyncFileOps::new() is called.
BrokerConnected ==
    /\ bpc = "connect"
    /\ \E c \in Completions :
         IF c = "err"
         THEN BuildReturns("UnknownError") /\ UNCHANGED effects
         ELSE IF ~builder.crypto
         THEN BuildReturns("MissingCrypto") /\ effects' = Append(effects, "peer")
         ELSE /\ bpc' = "fops"
              /\ effects' = effects \o <<"peer", "file_ops">>
              /\ UNCHANGED bresult
    /\ UNCHANGED <<storeVars, histVars, serveVars, chanVars, dirVars, builder>>

\* AsyncFileOps::new().await returns; Fingerprinter::new(1)?; Store::new is
\* called and opens the database.
FileOpsCreated ==
    /\ bpc = "fops"
    /\ \E c \in Completions :
         IF c = "err"
         THEN BuildReturns("FingerprinterError")
              /\ effects' = Append(effects, "fingerprinter")
         ELSE /\ bpc' = "store"
              /\ effects' = effects \o <<"fingerprinter", "db_open">>
              /\ UNCHANGED bresult
    /\ UNCHANGED <<storeVars, histVars, serveVars, chanVars, dirVars, builder>>

\* Store::new(..).await? returns; the Server is assembled.
StoreCreated ==
    /\ bpc = "store"
    /\ \E c \in Completions :
         BuildReturns(IF c = "err" THEN "UnknownError" ELSE "Ok")
    /\ UNCHANGED <<storeVars, histVars, serveVars, chanVars, dirVars, builder, effects>>

NextBuild ==
    \/ SetRoots
    \/ SetConnection
    \/ SetBroker
    \/ SetDb
    \/ SetCrypto
    \/ ApplySettings
    \/ BuildStart
    \/ BrokerConnected
    \/ FileOpsCreated
    \/ StoreCreated

\* A Builder is configured and built.
SpecBuild == Init /\ [][NextBuild]_vars

\* -------------------------------------------------------- private_directory

\* 0o700, the mode private_directory creates with and accepts.
PrivateMode == 448

\* 0o777, the permission bits of a mode.
PermissionBits == 511

\* S_IFDIR and S_IFREG, the type bits that Permissions::mode() carries.
DirType == 16384
FileType == 32768

\* 0o000, 0o007, 0o022, 0o027, 0o077 and 0o277
Umasks == {0, 7, 18, 23, 63, 191}

\* Modes given to mkdir and chmod: 0o500, 0o700, 0o750, 0o770, 0o777 and 0o1700.
RequestedModes == {320, 448, 488, 504, 511, 960}

\* The bitwise and of two naturals.
RECURSIVE BitAnd(_, _)
BitAnd(a, b) ==
    IF a = 0 \/ b = 0
    THEN 0
    ELSE (a % 2) * (b % 2) + 2 * BitAnd(a \div 2, b \div 2)

\* mkdir(2) and open(2): the requested mode without the bits of the umask.
Masked(mode, mask) == BitAnd(mode, 4095 - mask)

\* A directory entry with the given st_mode.
Entry(kind, mode) == [kind |-> kind, mode |-> mode]

\* private_directory(root): the result and the entry at root after the call.
private_directory(r, par, mask) ==
    IF r.kind = "missing"
    THEN IF par = "dir"
         THEN [res |-> "Ok", root |-> Entry("dir", DirType + Masked(PrivateMode, mask))]
         ELSE [res |-> "DirectoryCreationError", root |-> r]
    ELSE IF r.kind # "dir"
    THEN [res |-> "DirectoryCreationError", root |-> r]
    ELSE IF BitAnd(r.mode, PermissionBits) # PrivateMode
    THEN [res |-> "DirectoryPermissionError", root |-> r]
    ELSE [res |-> "Ok", root |-> r]

\* A path in a parent directory that exists, is missing or is not writable,
\* in a process with some umask.
InitDir ==
    /\ InitStore /\ InitServer("idle") /\ InitChannel /\ InitBuilder
    /\ root = Missing
    /\ parent \in {"dir", "missing", "readonly"}
    /\ umask \in Umasks
    /\ dres = "none"
    /\ before = Missing

\* The file system changes between calls of private_directory.
Becomes(entry) ==
    /\ root' = entry
    /\ dres' = "none"
    /\ before' = Missing
    /\ UNCHANGED <<storeVars, histVars, serveVars, chanVars, buildVars, parent, umask>>

\* std::fs::File::create(root)
CreateFile ==
    /\ root = Missing
    /\ parent = "dir"
    /\ Becomes(Entry("file", FileType + Masked(438, umask)))

\* DirBuilder::new().mode(m).create(root), TempDir::new()
MakeDir ==
    /\ root = Missing
    /\ parent = "dir"
    /\ \E m \in RequestedModes : Becomes(Entry("dir", DirType + Masked(m, umask)))

\* chmod of the directory at root
Chmod ==
    /\ root.kind = "dir"
    /\ \E m \in RequestedModes : Becomes(Entry("dir", DirType + m))

\* The entry at root is removed.
Remove ==
    /\ root # Missing
    /\ parent = "dir"
    /\ Becomes(Missing)

\* A call of private_directory(root).
PrivateDirectory ==
    /\ \E r \in {private_directory(root, parent, umask)} :
         /\ dres' = r.res
         /\ root' = r.root
    /\ before' = root
    /\ UNCHANGED <<storeVars, histVars, serveVars, chanVars, buildVars, parent, umask>>

NextDir ==
    \/ CreateFile
    \/ MakeDir
    \/ Chmod
    \/ Remove
    \/ PrivateDirectory

\* Calls of private_directory on a path of a changing file system.
SpecDir == InitDir /\ [][NextDir]_vars

\* ------------------------------------------------------------ store claims

\* The FileId row of a path in a FileId table (the set is empty or a singleton
\* when the path is associated with at most one id).
IdsOf(path, tab) == { r.id : r \in { s \in tab : s.path = canonical_path_repr(path) } }

\* The version rows of an id.
RowsOf(id, files) == { r \in files : r.id = id }

\* The latest Partial of an id: the row no other row of the id is newer than.
LatestOf(id, files) ==
    LET r == CHOOSE x \in RowsOf(id, files) :
                 \A y \in RowsOf(id, files) : y.version <= x.version
    IN  [file_id |-> id, version |-> r.version, len |-> r.len]

Answered(c) == c.reply.kind # "Err"

\* C1: a check that is answered returns Changed(None) exactly when the path's
\* FileId has no version row, Changed(Some(latest)) exactly when the latest
\* Partial's length differs from the observed one, and Unchanged(latest)
\* exactly when it equals it.
C1_CheckClassifies ==
    (last.op = "check" /\ Answered(last)) =>
        \E id \in IdsOf(last.info.file, FileIdT) :
            LET rows == RowsOf(id, last.preFiles)
            IN  /\ last.reply.kind \in {"Changed", "Unchanged"}
                /\ (last.reply = Changed(<<>>)) <=> (rows = {})
                /\ rows # {} =>
                      LET latest == LatestOf(id, last.preFiles)
                      IN  /\ (last.reply = Changed(<<latest>>)) <=> (latest.len # last.info.len)
                          /\ (last.reply = Unchanged(latest)) <=> (latest.len = last.info.len)

\* C1 witness: a check found the latest of several versions to differ in length.
C1_Witness ==
    /\ last.op = "check"
    /\ last.reply.kind = "Changed"
    /\ last.reply.partial # <<>>
    /\ last.reply.partial[1].version >= 1

\* C2: a check never appends a version row: the File table is the same before
\* and after it, its only write is a FileId row for a path that had none, and
\* a check with the stored length that follows an Unchanged((id, v, len)) for
\* the same path yields that same Unchanged((id, v, len)).
C2_CheckWritesNoVersion ==
    last.op = "check" =>
        /\ FileT = last.preFiles
        /\ \/ FileIdT = last.preIds
           \/ /\ IdsOf(last.info.file, last.preIds) = {}
              /\ \E id \in Ids :
                    FileIdT = last.preIds \cup
                        {[id |-> id, path |-> canonical_path_repr(last.info.file)]}
        /\ ( /\ Answered(last)
             /\ prev.op = "check"
             /\ prev.reply.kind = "Unchanged"
             /\ last.info.len = prev.reply.partial[1].len )
           => last.reply = prev.reply

\* C2 witness: an Unchanged check repeated with the stored length.
C2_Witness ==
    /\ last.op = "check"
    /\ prev.op = "check"
    /\ prev.reply.kind = "Unchanged"
    /\ last.reply.kind = "Unchanged"
    /\ last.info.len = prev.reply.partial[1].len
    /\ FileT # {}

\* C3: insert returns a Partial of the path's FileId with the inserted length
\* and version 0 when the FileId had no version row, the latest version + 1
\* otherwise (the version after the one an earlier check reported); it is then
\* the latest Partial: the next check of the path yields Unchanged of it for
\* the inserted length and Changed(Some(it)) for another length.
C3_InsertMakesLatest ==
    /\ (last.op = "insert" /\ Answered(last)) =>
          LET p == last.reply.partial[1]
              rows == RowsOf(p.file_id, last.preFiles)
          IN  /\ p.file_id \in IdsOf(last.info.file, FileIdT)
              /\ p.len = last.info.len
              /\ rows = {} => p.version = 0
              /\ rows # {} => p.version = LatestOf(p.file_id, last.preFiles).version + 1
              /\ LatestOf(p.file_id, FileT) = p
              /\ (prev.op = "check" /\ prev.reply = Changed(<<>>)) => p.version = 0
              /\ (prev.op = "check" /\ Answered(prev) /\ prev.reply.partial # <<>>) =>
                    p.version = prev.reply.partial[1].version + 1
    /\ (last.op = "check" /\ Answered(last) /\ prev.op = "insert" /\ Answered(prev)) =>
          LET p == prev.reply.partial[1]
          IN  last.reply = IF last.info.len = p.len THEN Unchanged(p) ELSE Changed(<<p>>)

\* C3 witness: a check with another length reported the previous Partial, and
\* the insert that followed returned the next version.
C3_Witness ==
    /\ last.op = "insert"
    /\ Answered(last)
    /\ prev.op = "check"
    /\ prev.reply.kind = "Changed"
    /\ prev.reply.partial # <<>>
    /\ last.reply.partial[1].version = prev.reply.partial[1].version + 1

\* C4: for each FileId the versions in the File table are exactly 0 .. n-1,
\* one row per version, and an insert returns a version above every version
\* the FileId had.
C4_VersionsGapFree ==
    /\ \A id \in Ids :
          /\ { r.version : r \in RowsOf(id, FileT) } = 0 .. (Cardinality(RowsOf(id, FileT)) - 1)
          /\ \A r1, r2 \in RowsOf(id, FileT) : r1.version = r2.version => r1 = r2
    /\ (last.op = "insert" /\ Answered(last)) =>
          \A r \in RowsOf(last.reply.partial[1].file_id, last.preFiles) :
              r.version < last.reply.partial[1].version

\* C4 witness: one FileId holds three versions.
C4_Witness ==
    /\ last.op = "insert"
    /\ Answered(last)
    /\ last.reply.partial[1].version = 2

\* C5: the FileId table is a bijection between paths and the ids in use, its
\* rows are never dropped or changed by a command, and every answered command
\* of a path resolves to the path's one FileId.
C5_FileIdBijection ==
    /\ \A r1, r2 \in FileIdT : (r1.path = r2.path) <=> (r1.id = r2.id)
    /\ \A r \in FileT : \E s \in FileIdT : s.id = r.id
    /\ last.preIds \subseteq FileIdT
    /\ (last.op # "none" /\ Answered(last)) =>
          /\ Cardinality(IdsOf(last.info.file, FileIdT)) = 1
          /\ last.reply.partial # <<>> =>
                last.reply.partial[1].file_id \in IdsOf(last.info.file, FileIdT)

\* C5 witness: a command for one path is answered with its FileId after the
\* other path got its own FileId and version rows.
C5_Witness ==
    /\ Cardinality(FileIdT) = 2
    /\ last.op = "check"
    /\ Answered(last)
    /\ last.reply.partial # <<>>
    /\ IdsOf(last.info.file, last.preIds) # {}
    /\ \E r \in FileT : r.id \notin IdsOf(last.info.file, FileIdT)

\* A command drew a candidate that was rejected, and was answered.
Collided(c) == Len(c.drawn) >= 2 /\ Answered(c)

\* C6: when a candidate FileId is already assigned to another path, creation
\* retries until a candidate is unused: the rejected candidates were all in
\* use, the new path gets the last candidate, distinct from every earlier id,
\* the earlier paths keep their FileIds and version rows, and no path has two
\* rows in the FileId table.
C6_CollisionRetries ==
    Collided(last) =>
        LET new == last.drawn[Len(last.drawn)]
            used == { r.id : r \in last.preIds }
        IN  /\ \A i \in 1 .. (Len(last.drawn) - 1) : last.drawn[i] \in used
            /\ new \notin used
            /\ FileIdT = last.preIds \cup
                    {[id |-> new, path |-> canonical_path_repr(last.info.file)]}
            /\ IdsOf(last.info.file, last.preIds) = {}
            /\ { r \in FileT : r.id # new } = last.preFiles
            /\ \A r1, r2 \in FileIdT : r1.path = r2.path => r1 = r2
            /\ last.reply.partial # <<>> => last.reply.partial[1].file_id = new

\* C6 witness: the second path's insert drew the first path's id, then a fresh
\* one, and the first path's rows are in the table.
C6_Witness ==
    /\ Collided(last)
    /\ last.op = "insert"
    /\ last.preFiles # {}
    /\ Cardinality(FileIdT) = 2

\* ----------------------------------------------------- orchestrator claims

\* The version rows of the file single_file is processing.
RowsOfCur(files) == UNION { RowsOf(id, files) : id \in IdsOf(cur.file, FileIdT) }

\* C7: when serve has returned, with Ok or with an error, Store::shutdown has
\* been invoked and the store worker has ended.
C7_ShutdownBeforeReturn ==
    pc = "returned" => (shutdownCalled /\ runner = "exited")

\* C8: between the Changed verdict and the reader's completion (descriptor
\* encryption, chunks being read, hashed and sent) the file has the version
\* rows it had at the verdict.
C8_VersionOnlyAtCompletion ==
    pc \in {"encrypt", "select_chunk", "hash_send"} =>
        RowsOfCur(FileT) = RowsOfCur(filesAtVerdict)

\* C9: when processing of a Changed file aborts on an encryption or read
\* error the file has the version rows it had at the verdict, and the next
\* answered check of the same path and length, in a later run, is Changed.
C9_AbortLeavesNoVersion ==
    /\ (pc = "returned" /\ result \in {"EncryptErr", "ReadErr"}) =>
          RowsOfCur(FileT) = RowsOfCur(filesAtVerdict)
    /\ (cur # NoInfo /\ cur = aborted /\ Answered([reply |-> verdict])) =>
          verdict.kind = "Changed"

\* C10: a Changed file processed to the end has one version row more than at
\* the verdict: version 0 for a file seen for the first time, v + 1 for a file
\* whose stored Partial had version v, the version placed in its descriptor.
C10_OneVersionPerChange ==
    (pc = "file_done" /\ outcome = "sent") =>
        \A id \in IdsOf(cur.file, FileIdT) :
            /\ Cardinality(RowsOf(id, FileT)) = Cardinality(RowsOf(id, filesAtVerdict)) + 1
            /\ LatestOf(id, FileT).version = descriptor[1].version
            /\ verdict.partial = <<>> => LatestOf(id, FileT).version = 0
            /\ verdict.partial # <<>> =>
                  LatestOf(id, FileT).version = verdict.partial[1].version + 1

\* ---------------------------------------------------------- channel claims

\* The entry of the worker's log for command id, <<>> when it was not executed.
ProcessedOf(id) == SelectSeq(processed, LAMBDA e : e.id = id)

\* C11: every command that is in the store's command channel when shutdown
\* closes the channel is still executed by the worker and its reply handed to
\* its caller before the worker ends (the schema having been created), and
\* shutdown returns only after the worker has ended.
C11_ShutdownDrains ==
    /\ (shutdownCalled /\ runner \in Ended /\ runner # "failed") =>
           \A id \in atShutdown :
               /\ ProcessedOf(id) # <<>>
               /\ ProcessedOf(id)[1].delivered
    /\ (joined # "none" => runner \in Ended)

\* C21: once its command loop is running the store worker ends only by
\* leaving the loop after shutdown has closed the command channel; a caller
\* that dropped its reply Receiver does not end it.
C21_WorkerStopsOnlyOnShutdown ==
    (runner \in Ended /\ runner # "failed") => (runner = "exited" /\ shutdownCalled)

\* C12: when the store worker ended with an error, its run loop having
\* returned Err, shutdown returns an error to its caller.
C12_ShutdownReturnsWorkerError ==
    (joined # "none" /\ runner = "failed") => joined = "Err"

\* C19, as claimed: at no time are two commands submitted to the channel and
\* not yet fully processed.
C19_OneCommandInFlight == Cardinality(InFlight) <= 1

\* C19, amended: at most one command waits in the channel while at most one
\* more, received earlier, is being executed by the worker; a second command
\* is accepted as soon as the worker has received the first.
C19_OneQueuedOneExecuting ==
    /\ Len(cmdq) <= 1
    /\ Cardinality(InFlight) <= 2
    /\ wcmd # 0 => runner = "busy" /\ \A i \in 1..Len(cmdq) : wcmd < cmdq[i]

\* Two callers await their replies: the worker executes the command of one
\* while the command of the other is in the channel.
C19_Witness ==
    /\ runner = "busy"
    /\ cmdq # <<>>
    /\ \E c, d \in Callers :
          /\ callers[c].st = "waiting" /\ callers[c].id = wcmd
          /\ callers[d].st = "waiting" /\ callers[d].id = cmdq[1]

\* The database and the replies after executing the first n accepted
\* commands one after the other from an empty database, each with the
\* candidates and the I/O outcome the worker met for it.
RECURSIVE Sequentially(_)
Sequentially(n) ==
    IF n = 0
    THEN [ids |-> {}, files |-> {}, replies |-> <<>>]
    ELSE LET b == Sequentially(n - 1)
             cmd == accepted[n]
             e == processed[n]
             r == IF cmd.op = "Insert"
                  THEN insert(e.cands, e.io, cmd.info, b.ids, b.files)
                  ELSE shallow_check(e.cands, e.io, cmd.info, b.ids, b.files)
         IN [ids |-> r.ids, files |-> r.files, replies |-> Append(b.replies, r.reply)]

\* C20: the worker executes the commands one at a time in the order they
\* were accepted: the database and the replies are those of executing them
\* sequentially in that order, and the worker holds at most the one command
\* that follows those it has executed.
C20_SequentialInOrder ==
    /\ \A i \in 1..Len(processed) : processed[i].id = i
    /\ wcmd # 0 => wcmd = Len(processed) + 1
    /\ LET s == Sequentially(Len(processed))
       IN /\ FileIdT = s.ids
          /\ FileT = s.files
          /\ \A i \in 1..Len(processed) : processed[i].reply = s.replies[i]

\* An insert and then a check of the same file were executed and answered:
\* the check saw the row of the insert.
C20_Witness ==
    /\ Len(processed) = 2
    /\ accepted[1].op = "Insert"
    /\ accepted[2] = [op |-> "ShallowCheck", info |-> accepted[1].info]
    /\ processed[1].delivered
    /\ processed[2].delivered
    /\ processed[2].reply.kind = "Unchanged"

\* ----------------------------------------- orchestrator claims, error paths

\* C13: per-file walk errors, a failed completion of the walk and chunk send
\* failures are not results of serve; after a failed completion of the walk no
\* File event is left unprocessed, after a send failure no chunk of the file is
\* left unsent when its version is recorded, a file whose reader completes has
\* its length recorded as a version, and serve returns Ok with the store shut
\* down.
C13_ToleratedErrorsLoseNothing ==
    /\ result \in {"none", "Ok", "StoreErr", "EncryptErr", "ReadErr"}
    /\ (pc = "returned" /\ result = "Ok") => (shutdownCalled /\ runner = "exited")
    /\ (pc = "file_done" /\ outcome = "sent") =>
           \E row \in RowsOfCur(FileT) : row.len = cur.len
    /\ (pc = "await_handle" /\ walkFin = "err") =>
           \A i \in 1..Len(walkCh) : walkCh[i].kind # "File"
    /\ (pc = "file_done" /\ outcome = "sent"
            /\ \E i \in 1..Len(handled) : handled[i].sent = "err") => chunkCh = <<>>

\* C14: a store check or insert error, a descriptor encryption error or a
\* read error makes serve return that error at once, and once serve has
\* returned no walk event is processed, no chunk is sent and no version is
\* recorded.
C14_FatalErrorAborts ==
    [][ /\ (pc = "check" /\ pc' # "check") =>
               IF verdict'.kind = "Err"
               THEN pc' = "returned" /\ result' = "StoreErr"
               ELSE pc' \in {"file_done", "insert"} /\ result' = "none"
        /\ (pc = "insert" /\ pc' # "insert") =>
               IF FileT' = FileT
               THEN pc' = "returned" /\ result' = "StoreErr"
               ELSE pc' = "encrypt" /\ result' = "none"
        /\ (pc = "encrypt" /\ pc' # "encrypt") =>
               \/ pc' = "returned" /\ result' = "EncryptErr" /\ readerFin' = "none"
               \/ pc' = "select_chunk" /\ result' = "none" /\ readerFin' = "running"
        /\ (pc = "select_chunk" /\ pc' \notin {"select_chunk", "hash_send"}) =>
               IF readerFin = "err"
               THEN pc' = "returned" /\ result' = "ReadErr" /\ FileT' = FileT
               ELSE IF FileT' = FileT
               THEN pc' = "returned" /\ result' = "StoreErr"
               ELSE pc' = "file_done" /\ result' = "none"
        /\ pc = "returned" =>
               /\ pc' = "returned"
               /\ UNCHANGED <<result, storeVars, walkVars, readVars, fileVars>>
      ]_vars

\* serve has returned a read error while a chunk the reader emitted is still
\* in the chunk channel: it is never sent.
C14_Witness ==
    /\ pc = "returned"
    /\ result = "ReadErr"
    /\ chunkCh # <<>>
    /\ handled # <<>>

\* C17: when the version of a Changed file is recorded at the reader's
\* successful completion, the chunks hashed and handed to the peer are the
\* chunks the reader emitted, in order and with none missing.
C17_AllChunksHandled ==
    (pc = "file_done" /\ outcome = "sent") =>
        /\ Len(handled) = nChunks
        /\ \A i \in 1..Len(handled) : handled[i].chunk = i

\* C18: when single_pass has returned Ok, every File event the walker emitted
\* has been routed to single_file: none is left in the walk channel.
C18_AllFileEventsRouted ==
    (pc = "await_handle" \/ (pc = "returned" /\ result = "Ok")) =>
        \A i \in 1..Len(walkCh) : walkCh[i].kind # "File"

\* ------------------------------------------------------------ builder claim

\* The configuration errors of the inputs the Builder lacks.
MissingInputs ==
    (IF builder.connection THEN {} ELSE {"MissingConnection"}) \cup
    (IF builder.broker THEN {} ELSE {"MissingBrokerInfo"}) \cup
    (IF builder.crypto THEN {} ELSE {"MissingCrypto"})

\* C15: a build that lacks a required input returns the configuration error
\* of a missing input, and a build that returns a configuration error has
\* attempted no broker connection, created no file-ops or fingerprinter and
\* opened no database.
C15_MissingInputBeforeIO ==
    /\ (bpc = "returned" /\ MissingInputs # {}) => bresult \in MissingInputs
    /\ bresult \in {"MissingConnection", "MissingBrokerInfo", "MissingCrypto"} =>
           effects = <<>>

\* ------------------------------------------------- private_directory claim

\* The permission bits of an entry.
Perm(entry) == BitAnd(entry.mode, PermissionBits)

\* C16: right after a call, private_directory has returned Ok exactly when
\* root is a directory with permission bits 0700: a missing root is created
\* with mode 0700, an existing 0700 directory is accepted unchanged, an entry
\* that is not a directory gives DirectoryCreationError and a directory with
\* another mode gives DirectoryPermissionError.
C16_OkIffPrivateDirectory ==
    dres # "none" =>
        /\ dres = "Ok" <=> (root.kind = "dir" /\ Perm(root) = PrivateMode)
        /\ (before = Missing /\ dres = "Ok") => root.mode = DirType + PrivateMode
        /\ (before.kind = "dir" /\ Perm(before) = PrivateMode) =>
               (dres = "Ok" /\ root = before)
        /\ before.kind = "file" => (dres = "DirectoryCreationError" /\ root = before)
        /\ (before.kind = "dir" /\ Perm(before) # PrivateMode) =>
               (dres = "DirectoryPermissionError" /\ root = before)

\* ------------------------------------- orchestrator claims, short circuit

\* C22: a file whose check returned Unchanged leaves single_file at once and
\* untouched: no version row is inserted after the verdict, no descriptor is
\* made, no reader is opened and no chunk is emitted, hashed or sent.
C22_UnchangedShortCircuits ==
    verdict.kind = "Unchanged" =>
        /\ pc = "file_done"
        /\ outcome = "skipped"
        /\ result = "none"
        /\ FileT = filesAtVerdict
        /\ descriptor = <<>>
        /\ readerFin = "none"
        /\ nChunks = 0
        /\ chunkCh = <<>>
        /\ handled = <<>>

\* A file recorded earlier in the pass is seen again with the same length:
\* its check returned Unchanged and single_file is about to return.
C22_Witness ==
    /\ pc = "file_done"
    /\ outcome = "skipped"
    /\ verdict.kind = "Unchanged"
    /\ verdict.partial[1].len = cur.len
    /\ RowsOfCur(FileT) # {}

\* ------------------------------------------- orchestrator claim, liveness

\* C23: under fair scheduling serve eventually returns, and whenever it has
\* returned Ok the store worker has exited.
C23_ServeReturns ==
    /\ <>(pc = "returned")
    /\ []((pc = "returned" /\ result = "Ok") => runner = "exited")

\* serve has returned Ok after a pass in which a file was recorded and the
\* walker emitted all its events; the worker has exited.
C23_Witness ==
    /\ pc = "returned"
    /\ result = "Ok"
    /\ runner = "exited"
    /\ nEvents = MaxEvents
    /\ FileT # {}

====
